---- MODULE Spec2Model ----
(***************************************************************************)
(* Model of the Bookkeeping web application (src/app.py): one collection   *)
(* of expense documents (expenses_col), one GridFS bucket of receipts      *)
(* (fs), and the request handlers that read and write them.                *)
(*                                                                         *)
(* Text is a sequence of one-character strings.  A datetime is a number    *)
(* of ticks, OneDay ticks to the calendar day; a date string of the form   *)
(* %Y-%m-%d is the number of its day.  A float is a record: a finite one   *)
(* carries its value in hundredths, a non-finite one is nan, inf or -inf.  *)
(***************************************************************************)
EXTENDS Integers, Sequences, FiniteSets, TLC

VARIABLES expenses_col, fs, nextOid, now, obs, reqs, session

vars == <<expenses_col, fs, nextOid, now, obs, reqs, session>>

(* ------------------------------ bounds -------------------------------- *)

\* Largest number of documents the collection holds in a checked run.
MaxRecs == 2
\* Ticks of the clock to one calendar day (the resolution of a datetime).
OneDay == 2
\* Add and edit requests that write, after which the checked runs take no more.
MaxWrites == 2
\* Requests that may be running at once (SpecConc).
NProcs == 2

(* ------------------------------- values ------------------------------- *)

\* Python's None, and a falsy "no ObjectId".
None == 0

\* The calendar days that occur in date strings.
Days == {1, 2}

F(v) == [fin |-> TRUE, v |-> v]
NaN == [fin |-> FALSE, v |-> 0]
Inf == [fin |-> FALSE, v |-> 1]
NegInf == [fin |-> FALSE, v |-> -1]

\* IEEE addition on the modelled floats (rounding of finite sums left out).
FAdd(a, b) ==
    IF a.fin /\ b.fin THEN F(a.v + b.v)
    ELSE IF a = NaN \/ b = NaN THEN NaN
    ELSE IF a.fin THEN b
    ELSE IF b.fin THEN a
    ELSE IF a = b THEN a
    ELSE NaN

\* The order relation $sort uses on the modelled floats (NaN sorts lowest).
FRank(a) == IF a.fin THEN 1 ELSE IF a = NaN THEN -1 ELSE IF a = NegInf THEN 0 ELSE 2
FLess(a, b) ==
    \/ FRank(a) < FRank(b)
    \/ FRank(a) = 1 /\ FRank(b) = 1 /\ a.v < b.v

UpperChars == <<"A", "B", "D", "E", "F", "P", "T", "X">>
LowerChars == <<"a", "b", "d", "e", "f", "p", "t", "x">>

\* str.lower() on one character
Lower(c) ==
    IF \E i \in 1..Len(UpperChars) : UpperChars[i] = c
    THEN LowerChars[CHOOSE i \in 1..Len(UpperChars) : UpperChars[i] = c]
    ELSE c

\* A regular expression of literal characters and ".", searched anywhere in
\* the text s, ignoring case ($regex with $options "i").
RegexMatchAt(pat, s, i) ==
    \A k \in 1..Len(pat) :
        \/ pat[k] = "." /\ s[i + k - 1] # "\n"
        \/ pat[k] # "." /\ Lower(pat[k]) = Lower(s[i + k - 1])

RegexSearch(pat, s) ==
    \E i \in 1..(Len(s) - Len(pat) + 1) : RegexMatchAt(pat, s, i)

(* ------------------------------ helpers ------------------------------- *)

Min(a, b) == IF a <= b THEN a ELSE b

\* The first n elements of s (all of it when it is shorter): cursor.limit(n), $limit.
Limit(s, n) == SubSeq(s, 1, Min(n, Len(s)))

RECURSIVE Perms(_)
Perms(S) ==
    IF S = {} THEN {<<>>}
    ELSE UNION {{<<x>> \o p : p \in Perms(S \ {x})} : x \in S}

\* What a sort on a key may return: the store fixes no order among documents
\* whose keys are equal, and two runs of one query need not agree on it.
\* <<a, b>> is in before when a has to come before b.
SortOutcomes(S, before) ==
    {s \in Perms(S) : \A i, j \in 1..Len(s) : i < j => <<s[j], s[i]>> \notin before}

RECURSIVE SumAmount(_)
\* $group with {"$sum": "$amount"} over a set of documents.
SumAmount(S) ==
    IF S = {} THEN F(0)
    ELSE LET d == CHOOSE x \in S : TRUE IN FAdd(d.amount, SumAmount(S \ {d}))

(* ------------------------------ queries ------------------------------- *)

\* _parse_date: None for an empty string (0), else midnight UTC of the day.
_parse_date(s) == IF s = 0 THEN None ELSE s * OneDay

\* datetime.strftime("%Y-%m-%d"): the calendar day of a datetime.
Strftime(dt) == dt \div OneDay

\* The query document q that expenses() and export_csv() build from the
\* request's parameters; a key that is not in the dict has has* = FALSE.
BuildQuery(p) ==
    LET start_dt == _parse_date(p.start)
        end_dt == _parse_date(p.end)
    IN  [hasCategory |-> p.category # <<>>,
         category |-> p.category,
         hasGte |-> start_dt # None,
         gte |-> start_dt,
         hasLt |-> end_dt # None,
         lt |-> IF end_dt # None THEN end_dt + OneDay ELSE None,
         hasOr |-> p.search # <<>>,
         regex |-> p.search]

\* Whether the store selects document d for query q.
Matches(q, d) ==
    /\ q.hasCategory => d.category = q.category
    /\ q.hasGte => d.date >= q.gte
    /\ q.hasLt => d.date < q.lt
    /\ q.hasOr => (RegexSearch(q.regex, d.vendor) \/ RegexSearch(q.regex, d.notes))

Find(q) == {d \in expenses_col : Matches(q, d)}

DateDescending(S) == {<<a, b>> \in S \X S : a.date > b.date}

\* expenses_col.find(q).sort("date", DESCENDING): the possible cursors.
FindSorted(q) == SortOutcomes(Find(q), DateDescending(Find(q)))

\* _serialize_expense: the dict handed to the templates.
_serialize_expense(d) ==
    [id |-> d._id, date |-> Strftime(d.date), vendor |-> d.vendor,
     category |-> d.category, amount |-> d.amount, notes |-> d.notes,
     receipt_id |-> d.receipt_id, created_at |-> d.created_at,
     updated_at |-> d.updated_at]

\* The total with the $match stage lost.
AggregateTotalUnfiltered(q) == IF expenses_col = {} THEN F(0) ELSE SumAmount(expenses_col)

\* aggregate([{"$match": q}, {"$group": {"_id": None, "sum": {"$sum": "$amount"}}}])
\* followed by  doc[0]["sum"] if doc else 0.0 .
AggregateTotal(q) == IF Find(q) = {} THEN F(0) ELSE SumAmount(Find(q))

\* str.replace(old, new) for a one-character old.
Replace(s, old, new) == [i \in 1..Len(s) |-> IF s[i] = old THEN new ELSE s[i]]

\* The fields of one data row of generate().
CsvRow(d) ==
    [id |-> d._id, date |-> Strftime(d.date), vendor |-> d.vendor,
     category |-> d.category, amount |-> d.amount,
     notes |-> Replace(Replace(d.notes, "\n", " "), ",", " "),
     receipt_id |-> d.receipt_id, created_at |-> d.created_at]

RECURSIVE Str(_)
\* str() of a natural number: its decimal digits.
Str(n) ==
    LET digit == <<"0", "1", "2", "3", "4", "5", "6", "7", "8", "9">>[(n % 10) + 1]
    IN  IF n < 10 THEN <<digit>> ELSE Append(Str(n \div 10), digit)

\* f'{amount:.2f}': a sign, the whole part, a point and two decimals, or the
\* name of a float that is not finite.
FormatAmount(a) ==
    IF a.fin
    THEN LET m == IF a.v < 0 THEN -a.v ELSE a.v
         IN  (IF a.v < 0 THEN <<"-">> ELSE <<>>) \o Str(m \div 100) \o <<".">>
                \o Str((m % 100) \div 10) \o Str(m % 10)
    ELSE IF a = NaN THEN <<"n", "a", "n">>
    ELSE IF a = Inf THEN <<"i", "n", "f">>
    ELSE <<"-", "i", "n", "f">>

\* The strings of one data row of generate(): str(_id), the day of the date,
\* the texts as stored (notes as replaced), the amount formatted, the
\* receipt's id or "", and created_at.isoformat() (the day, "T", the tick).
CsvText(row) ==
    <<Str(row.id), Str(row.date), row.vendor, row.category, FormatAmount(row.amount),
      row.notes, IF row.receipt_id # None THEN Str(row.receipt_id) ELSE <<>>,
      Str(row.created_at \div OneDay) \o <<"T">> \o Str(row.created_at % OneDay)>>

RECURSIVE Join(_, _)
\* sep.join(strings)
Join(strings, sep) ==
    IF strings = <<>> THEN <<>>
    ELSE IF Len(strings) = 1 THEN strings[1]
    ELSE strings[1] \o <<sep>> \o Join(Tail(strings), sep)

\* ",".join(row) + "\n"
CsvLine(row) == Append(Join(CsvText(row), ","), "\n")

\* The names of the header line that generate() yields first.
CsvHeader ==
    <<"id", "date", "vendor", "category", "amount", "notes", "receipt_id", "created_at">>

(* ----------------------------- dashboard ------------------------------ *)

TopLimit == 5
RecentLimit == 10

Uncategorized == <<"U", "n", "c", "a", "t", "e", "g", "o", "r", "i", "z", "e", "d">>

\* {"$group": {"_id": "$category", "sum": {"$sum": "$amount"}}}
GroupByCategory ==
    {[_id |-> c, sum |-> SumAmount({d \in expenses_col : d.category = c})] :
        c \in {d.category : d \in expenses_col}}

SumDescending(S) == {<<a, b>> \in S \X S : FLess(b.sum, a.sum)}

\* The possible results of the top-categories pipeline ($group, $sort, $limit).
TopCats == {Limit(s, TopLimit) : s \in SortOutcomes(GroupByCategory, SumDescending(GroupByCategory))}

\* x["_id"] or "Uncategorized"
TopCategories(top_cats) ==
    [i \in 1..Len(top_cats) |->
        [category |-> IF top_cats[i]._id = <<>> THEN Uncategorized ELSE top_cats[i]._id,
         sum |-> top_cats[i].sum]]

\* total_doc[0]["sum"] if total_doc else 0.0, the pipeline having no $match.
IndexTotal == IF expenses_col = {} THEN F(0) ELSE SumAmount(expenses_col)

\* expenses_col.find({}).sort("date", DESCENDING).limit(10): the possible cursors.
Recent == {Limit(s, RecentLimit) : s \in SortOutcomes(expenses_col, DateDescending(expenses_col))}

(* --------------------- what the read requests return ------------------ *)

\* obs holds the last request and the response to it: kind names the
\* handler ("none" before the first request), req its inputs, status the
\* outcome; rows, total and top_categories are what a page was rendered from.
Response(req, kind, status, rows, total, top_categories) ==
    [req |-> req, kind |-> kind, status |-> status, rows |-> rows, total |-> total,
     top_categories |-> top_categories]

\* The session of the client: what session.get("authed") finds in it.
LoggedIn == [authed |-> TRUE]
LoggedOut == [authed |-> FALSE]

\* @require_login around the view A of the route kind, called with req: the
\* view runs when the session is authenticated, else the wrapper redirects
\* to the login page and the view is not called.
LoginRedirect(req, kind) ==
    /\ obs' = Response(req, kind, "302 /login", <<>>, F(0), <<>>)
    /\ UNCHANGED <<expenses_col, fs, nextOid, now, reqs, session>>

\* The wrapper with its test of the session lost.
RequireLoginSkipped(req, kind, A) == A /\ UNCHANGED session

require_login(req, kind, A) ==
    IF session.authed THEN A /\ UNCHANGED session ELSE LoginRedirect(req, kind)

\* GET /expenses with the parameters p
Expenses(p) ==
    /\ \E cursor \in FindSorted(BuildQuery(p)) :
          obs' = Response(p, "list", "200",
                          [i \in 1..Len(cursor) |-> _serialize_expense(cursor[i])],
                          AggregateTotal(BuildQuery(p)), <<>>)
    /\ UNCHANGED <<expenses_col, fs, nextOid, now, reqs>>

\* GET /export.csv with the parameters p
ExportCsv(p) ==
    /\ \E cursor \in FindSorted(BuildQuery(p)) :
          obs' = Response(p, "export", "200",
                          [i \in 1..Len(cursor) |-> CsvRow(cursor[i])], F(0), <<>>)
    /\ UNCHANGED <<expenses_col, fs, nextOid, now, reqs>>

\* GET /dashboard  (this_month, which no checked property reads, is left out)
Index ==
    /\ \E top_cats \in TopCats, recent \in Recent :
          obs' = Response(obs.req, "dash", "200",
                          [i \in 1..Len(recent) |-> _serialize_expense(recent[i])],
                          IndexTotal, TopCategories(top_cats))
    /\ UNCHANGED <<expenses_col, fs, nextOid, now, reqs>>

(* --------- the read requests over every small store (SpecQuery) ------- *)

\* Date strings (0 is the empty string); every one is well-formed, as the
\* date fields of the forms submit them.
DateParams == {0} \cup Days
CategoryParams == {<<>>, <<"T">>, <<"t">>}
SearchParams == {<<>>, <<"a">>, <<".">>}
Params == [start : DateParams, end : DateParams,
           category : CategoryParams, search : SearchParams]

\* Datetimes of stored documents: midnight of day 1, later that day, midnight of day 2.
QDates == {OneDay, OneDay + 1, 2 * OneDay}
\* vendor and notes of stored documents
QTexts == {<<<<>>, <<>>>>, <<<<"a", "b">>, <<>>>>, <<<<>>, <<"A">>>>}
QCategories == {<<>>, <<"T">>, Uncategorized}
QAmounts == {F(100), F(-250)}

\* The documents add() can have stored as the k-th document of the collection.
QDocs(k) ==
    {[_id |-> k, date |-> dt, vendor |-> t[1], category |-> c, amount |-> a,
      notes |-> t[2], receipt_id |-> None, created_at |-> k, updated_at |-> k] :
        dt \in QDates, t \in QTexts, c \in QCategories, a \in QAmounts}

RECURSIVE Stores(_, _)
\* The collections of n documents, the k-th of them from docs[k].
Stores(n, docs) ==
    IF n = 0 THEN {{}}
    ELSE {S \cup {d} : S \in Stores(n - 1, docs), d \in docs[n]}

InitQuery ==
    /\ expenses_col \in UNION {Stores(n, [k \in 1..MaxRecs |-> QDocs(k)]) : n \in 0..MaxRecs}
    /\ fs = {}
    /\ nextOid = MaxRecs + 1
    /\ now = 2 * OneDay
    /\ \E p \in Params : obs = Response(p, "none", "", <<>>, F(0), <<>>)
    /\ reqs = <<>>
    /\ session = LoggedIn

NextQuery ==
    \/ require_login(obs.req, "list", Expenses(obs.req))
    \/ require_login(obs.req, "export", ExportCsv(obs.req))
    \/ require_login(obs.req, "dash", Index)

SpecQuery == InitQuery /\ [][NextQuery]_vars

(* ------ the totals over stores of every amount (SpecTotals) ----------- *)

TAmounts == {F(100), F(-250), NaN}
TCategories == {<<>>, <<"T">>}
\* Later on day 1, and midnight of day 2.
TDates == {OneDay + 1, 2 * OneDay}
TParams == [start : DateParams, end : DateParams,
            category : {<<>>, <<"T">>}, search : {<<>>, <<"A">>}]

\* Documents that differ in what the filters read and in their amounts; the
\* even ones have the vendor "ab", the odd ones none.
TDocs(k) ==
    {[_id |-> k, date |-> dt, vendor |-> IF k % 2 = 0 THEN <<"a", "b">> ELSE <<>>,
      category |-> c, amount |-> a, notes |-> <<>>, receipt_id |-> None,
      created_at |-> k, updated_at |-> k] :
        dt \in TDates, c \in TCategories, a \in TAmounts}

InitTotals ==
    /\ expenses_col \in UNION {Stores(n, [k \in 1..MaxRecs |-> TDocs(k)]) : n \in 0..MaxRecs}
    /\ fs = {}
    /\ nextOid = MaxRecs + 1
    /\ now = 2 * OneDay
    /\ \E p \in TParams : obs = Response(p, "none", "", <<>>, F(0), <<>>)
    /\ reqs = <<>>
    /\ session = LoggedIn

SpecTotals == InitTotals /\ [][NextQuery]_vars

(* --------------------------- form handling ---------------------------- *)

ALLOWED_EXT == {<<"p", "n", "g">>, <<"j", "p", "g">>, <<"j", "p", "e", "g">>, <<"p", "d", "f">>}

\* filename.rsplit(".", 1)[1]: what follows the last "." of a name that has one.
Ext(filename) ==
    LET dot == CHOOSE i \in 1..Len(filename) :
                   filename[i] = "." /\ \A j \in (i + 1)..Len(filename) : filename[j] # "."
    IN  SubSeq(filename, dot + 1, Len(filename))

allowed_file(filename) ==
    /\ \E i \in 1..Len(filename) : filename[i] = "."
    /\ [i \in 1..Len(Ext(filename)) |-> Lower(Ext(filename)[i])] \in ALLOWED_EXT

RECURSIVE Strip(_)
\* str.strip(): leading and trailing blanks removed.
Strip(s) ==
    IF s = <<>> THEN s
    ELSE IF s[1] = " " THEN Strip(Tail(s))
    ELSE IF s[Len(s)] = " " THEN Strip(SubSeq(s, 1, Len(s) - 1))
    ELSE s

\* The amount field's texts the forms submit, and float() of each: a
\* ValueError for the first two, a float for the others.
AmountTexts == {"", "abc", "12.50", "0", "nan", "inf"}
FloatRaises(text) == text \in {"", "abc"}
Float(text) ==
    CASE text = "12.50" -> F(1250)
      [] text = "0" -> F(0)
      [] text = "nan" -> NaN
      [] text = "inf" -> Inf

\* bool(x) of a float
Truthy(a) == ~(a.fin /\ a.v = 0)

\* x or y  on texts
Or(x, y) == IF x # <<>> THEN x ELSE y

(* ------------------------------ the stores ---------------------------- *)

\* fs.put: a new file under a fresh ObjectId
FsPut(files, id) == files \cup {id}

\* _delete_receipt with the call of fs.delete lost.
DeleteReceiptSkipped(files, receipt_id, ok) == files

\* _delete_receipt: fs.delete(receipt_id), an exception of which is swallowed;
\* ok tells whether the store deleted the file.
_delete_receipt(files, receipt_id, ok) ==
    IF receipt_id = None \/ ~ok THEN files ELSE files \ {receipt_id}

\* find_one({"_id": oid}) returns a document (Has), which FindOne names, or None.
Has(col, oid) == \E d \in col : d._id = oid
FindOne(col, oid) == CHOOSE d \in col : d._id = oid

InsertOne(col, doc) == col \cup {doc}

\* update_one({"_id": oid}, {"$set": set_fields}): a no-op when no document has the id.
UpdateOne(col, oid, set_fields) ==
    {IF d._id = oid
     THEN [k \in DOMAIN d |-> IF k \in DOMAIN set_fields THEN set_fields[k] ELSE d[k]]
     ELSE d : d \in col}

DeleteOne(col, oid) == {d \in col : d._id # oid}

\* receipts(id): fs.get raises for an id that names no file.
ReceiptsStatus(files, id) == IF id \in files THEN "200" ELSE "404"

(* ------------------------- what a handler computes -------------------- *)

\* _save_receipt stores the upload (else it returns None without a store call).
SavesReceipt(file) == file # <<>> /\ allowed_file(file)

\* The document add() inserts; t is _now_utc(), id the new document's _id.
AddDoc(form, receipt_oid, t, id) ==
    [_id |-> id,
     date |-> IF _parse_date(form.date) # None THEN _parse_date(form.date) ELSE t,
     vendor |-> Strip(form.vendor),
     category |-> Strip(form.category),
     amount |-> Float(form.amount),
     notes |-> Strip(form.notes),
     created_at |-> t,
     updated_at |-> t,
     receipt_id |-> receipt_oid]

\* How edit()'s amount line and float() end: "ok", "ValueError" (flashed, and
\* redirected), or "AttributeError" (.strip() of the stored float: a 500).
EditAmountOutcome(form, doc) ==
    IF form.amount # ""
    THEN IF FloatRaises(form.amount) THEN "ValueError" ELSE "ok"
    ELSE IF Truthy(doc.amount) THEN "AttributeError" ELSE "ValueError"

\* set_fields of edit(), before the optional receipt replacement.
SetFields(form, doc, t) ==
    [date |-> IF form.date # 0 THEN _parse_date(form.date) ELSE doc.date,
     vendor |-> Strip(Or(form.vendor, doc.vendor)),
     category |-> Strip(Or(form.category, doc.category)),
     amount |-> Float(form.amount),
     notes |-> Strip(Or(form.notes, doc.notes)),
     updated_at |-> t]

\* The assignment set_fields["receipt_id"] = new_oid lost.
WithReceiptDropped(set_fields, new_oid) == set_fields

\* set_fields["receipt_id"] = new_oid
WithReceipt(set_fields, new_oid) ==
    [k \in DOMAIN set_fields \cup {"receipt_id"} |->
        IF k = "receipt_id" THEN new_oid ELSE set_fields[k]]

(* ------------------- add, edit, delete, receipts ---------------------- *)

Pdf == <<"r", ".", "p", "d", "f">>
Exe == <<"r", ".", "e", "x", "e">>

\* What the forms submit: the amount texts with and without an upload, and
\* each other field filled, empty or changed.  file is the upload's filename,
\* <<>> when no file is chosen; date is a date string, 0 the empty one.
BaseForm == [date |-> 1, vendor |-> <<"a">>, category |-> <<"T">>, amount |-> "12.50",
             notes |-> <<"n">>, file |-> <<>>]
NoForm == [date |-> 0, vendor |-> <<>>, category |-> <<>>, amount |-> "",
           notes |-> <<>>, file |-> <<>>]
Forms ==
    {[BaseForm EXCEPT !.amount = a] : a \in AmountTexts}
        \cup {[BaseForm EXCEPT !.amount = a, !.file = f] : a \in {"12.50", "abc"}, f \in {Pdf, Exe}}
        \cup {[BaseForm EXCEPT !.date = d] : d \in {0, 2}}
        \cup {[BaseForm EXCEPT !.vendor = v] : v \in {<<>>, <<" ", "b">>}}
        \cup {[BaseForm EXCEPT !.category = <<>>], [BaseForm EXCEPT !.notes = <<>>]}

\* What obs keeps of an add, edit, delete or receipt request: the id in its
\* URL (None for add) and whether fs.delete, where the handler called it,
\* deleted the file.
Request(oid, ok) == [oid |-> oid, fs_deleted |-> ok]

\* The response to a request that renders no page.
Result(req, kind, status) == Response(req, kind, status, <<>>, F(0), <<>>)

\* The clock's first reading, and whether a further write is within the bound.
StartTime == OneDay
MayWrite == now < StartTime + MaxWrites

\* POST /add
Add(form) ==
    IF FloatRaises(form.amount)
    THEN /\ obs' = Result(Request(None, TRUE), "add", "302 /add")
         /\ UNCHANGED <<expenses_col, fs, nextOid, now, reqs>>
    ELSE LET saves == SavesReceipt(form.file)
             receipt_oid == IF saves THEN nextOid ELSE None
             id == IF saves THEN nextOid + 1 ELSE nextOid
         IN  /\ MayWrite
             /\ Cardinality(expenses_col) < MaxRecs
             /\ fs' = IF saves THEN FsPut(fs, receipt_oid) ELSE fs
             /\ expenses_col' = InsertOne(expenses_col, AddDoc(form, receipt_oid, now, id))
             /\ nextOid' = id + 1
             /\ now' = now + 1
             /\ obs' = Result(Request(None, TRUE), "add", "302 /expenses")
             /\ UNCHANGED reqs

\* POST /edit/<oid>; ok tells whether fs.delete, if called, deletes the file.
Edit(oid, form, ok) ==
    IF ~Has(expenses_col, oid)
    THEN /\ obs' = Result(Request(oid, ok), "edit", "404")
         /\ UNCHANGED <<expenses_col, fs, nextOid, now, reqs>>
    ELSE LET doc == FindOne(expenses_col, oid)
             outcome == EditAmountOutcome(form, doc)
             replaces == form.file # <<>>
             saves == SavesReceipt(form.file)
             new_oid == IF saves THEN nextOid ELSE None
             fs1 == IF saves THEN FsPut(fs, new_oid) ELSE fs
             set_fields == IF replaces
                           THEN WithReceipt(SetFields(form, doc, now), new_oid)
                           ELSE SetFields(form, doc, now)
         IN  IF outcome # "ok"
             THEN /\ obs' = Result(Request(oid, ok), "edit",
                                   IF outcome = "ValueError" THEN "302 /edit" ELSE "500")
                  /\ UNCHANGED <<expenses_col, fs, nextOid, now, reqs>>
             ELSE /\ MayWrite
                  /\ fs' = IF replaces THEN _delete_receipt(fs1, doc.receipt_id, ok) ELSE fs1
                  /\ expenses_col' = UpdateOne(expenses_col, oid, set_fields)
                  /\ nextOid' = IF saves THEN nextOid + 1 ELSE nextOid
                  /\ now' = now + 1
                  /\ obs' = Result(Request(oid, ok), "edit", "302 /expenses")
                  /\ UNCHANGED reqs

\* POST /delete/<oid>; ok tells whether fs.delete, if called, deletes the file.
Delete(oid, ok) ==
    IF ~Has(expenses_col, oid)
    THEN /\ obs' = Result(Request(oid, ok), "delete", "404")
         /\ UNCHANGED <<expenses_col, fs, nextOid, now, reqs>>
    ELSE LET doc == FindOne(expenses_col, oid)
         IN  /\ fs' = _delete_receipt(fs, doc.receipt_id, ok)
             /\ expenses_col' = DeleteOne(expenses_col, oid)
             /\ obs' = Result(Request(oid, ok), "delete", "302 /expenses")
             /\ UNCHANGED <<nextOid, now, reqs>>

\* GET /receipts/<id>
Receipts(id) ==
    /\ obs' = Result(Request(id, TRUE), "receipt", ReceiptsStatus(fs, id))
    /\ UNCHANGED <<expenses_col, fs, nextOid, now, reqs>>

\* The ids a request can name: every ObjectId handed out so far, and the next.
Oids == 1..nextOid

Init ==
    /\ expenses_col = {}
    /\ fs = {}
    /\ nextOid = 1
    /\ now = StartTime
    /\ obs = Result(Request(None, TRUE), "none", "")
    /\ reqs = <<>>
    /\ session = LoggedIn

\* What fs.delete may do in a request on oid that calls _delete_receipt when
\* calls holds: delete the file, or raise; TRUE when it is not called.
FsDeleteOutcomes(oid, calls) ==
    IF calls /\ Has(expenses_col, oid) /\ FindOne(expenses_col, oid).receipt_id # None
    THEN BOOLEAN
    ELSE {TRUE}

Next ==
    \/ \E form \in Forms : require_login(Request(None, TRUE), "add", Add(form))
    \/ \E oid \in Oids, form \in Forms :
          \E ok \in FsDeleteOutcomes(oid, form.file # <<>>) :
             require_login(Request(oid, TRUE), "edit", Edit(oid, form, ok))
    \/ \E oid \in Oids : \E ok \in FsDeleteOutcomes(oid, TRUE) :
          require_login(Request(oid, TRUE), "delete", Delete(oid, ok))
    \/ \E id \in Oids : require_login(Request(id, TRUE), "receipt", Receipts(id))

\* Every request runs alone, from its first store call to its last.
Spec == Init /\ [][Next]_vars

\* The requests that write, every fs.delete deleting its file.
NextDeleting ==
    \/ \E form \in Forms : require_login(Request(None, TRUE), "add", Add(form))
    \/ \E oid \in Oids, form \in Forms :
          require_login(Request(oid, TRUE), "edit", Edit(oid, form, TRUE))
    \/ \E oid \in Oids : require_login(Request(oid, TRUE), "delete", Delete(oid, TRUE))

\* Every request runs alone, and no deletion from the receipt store fails.
SpecDeleting == Init /\ [][NextDeleting]_vars

(* ------------------- logging in and logging out ---------------------- *)

\* The configured credentials, and the texts the login form submits ("" for
\* a field left out).
APP_USERNAME == "admin"
APP_PASSWORD == "changeme"
Credentials == {APP_USERNAME, APP_PASSWORD, ""}

\* /login: the page on GET; on POST the session is authenticated when both
\* fields equal the configured ones, else the client is sent back to /login.
Login(method, u, p) ==
    /\ IF method = "POST" /\ u = APP_USERNAME /\ p = APP_PASSWORD
       THEN /\ session' = [session EXCEPT !.authed = TRUE]
            /\ obs' = Result([method |-> method, username |-> u, password |-> p],
                             "login", "302 /dashboard")
       ELSE /\ session' = session
            /\ obs' = Result([method |-> method, username |-> u, password |-> p],
                             "login", IF method = "POST" THEN "302 /login" ELSE "200")
    /\ UNCHANGED <<expenses_col, fs, nextOid, now, reqs>>

\* /logout, behind the wrapper: session.clear()
Logout ==
    IF session.authed
    THEN /\ session' = LoggedOut
         /\ obs' = Result(Request(None, TRUE), "logout", "302 /login")
         /\ UNCHANGED <<expenses_col, fs, nextOid, now, reqs>>
    ELSE LoginRedirect(Request(None, TRUE), "logout")

\* GET /add: the empty form
AddPage ==
    /\ obs' = Result(Request(None, TRUE), "add", "200")
    /\ UNCHANGED <<expenses_col, fs, nextOid, now, reqs>>

\* GET /edit/<oid>: the form filled from the document that find_one returns
EditPage(oid) ==
    /\ obs' = IF Has(expenses_col, oid)
              THEN Response(Request(oid, TRUE), "edit", "200",
                            <<_serialize_expense(FindOne(expenses_col, oid))>>, F(0), <<>>)
              ELSE Result(Request(oid, TRUE), "edit", "404")
    /\ UNCHANGED <<expenses_col, fs, nextOid, now, reqs>>

\* The forms and the parameters of the requests of a session that logs in
\* and out: a record with and without a receipt, and no filter.
AuthForms == {BaseForm, [BaseForm EXCEPT !.file = Pdf]}
AuthParams == [start |-> 0, end |-> 0, category |-> <<>>, search |-> <<>>]

InitAuth ==
    /\ expenses_col = {}
    /\ fs = {}
    /\ nextOid = 1
    /\ now = StartTime
    /\ obs = Result(Request(None, TRUE), "none", "")
    /\ reqs = <<>>
    /\ session = LoggedOut

NextAuth ==
    \/ \E method \in {"GET", "POST"}, u, p \in Credentials : Login(method, u, p)
    \/ Logout
    \/ require_login(AuthParams, "dash", Index)
    \/ require_login(AuthParams, "list", Expenses(AuthParams))
    \/ require_login(AuthParams, "export", ExportCsv(AuthParams))
    \/ require_login(Request(None, TRUE), "add", AddPage)
    \/ \E form \in AuthForms : require_login(Request(None, TRUE), "add", Add(form))
    \/ \E oid \in Oids : require_login(Request(oid, TRUE), "edit", EditPage(oid))
    \/ \E oid \in Oids, form \in AuthForms :
          \E ok \in FsDeleteOutcomes(oid, form.file # <<>>) :
             require_login(Request(oid, TRUE), "edit", Edit(oid, form, ok))
    \/ \E oid \in Oids : \E ok \in FsDeleteOutcomes(oid, TRUE) :
          require_login(Request(oid, TRUE), "delete", Delete(oid, ok))
    \/ \E id \in Oids : require_login(Request(id, TRUE), "receipt", Receipts(id))

\* One session from its first request on: it logs in, works, logs out.
SpecAuth == InitAuth /\ [][NextAuth]_vars

(* ----------------- texts with commas and newlines -------------------- *)

\* Forms whose texts hold commas and newlines.
CsvForms ==
    {[BaseForm EXCEPT !.vendor = v, !.category = c, !.notes = n] :
        v \in {<<"a">>, <<"a", ",", "b">>, <<"a", "\n", "b">>},
        c \in {<<"T">>, <<"T", ",", "t">>},
        n \in {<<"n">>, <<"n", ",", "m">>, <<"n", "\n", "m">>}}

\* Records are added and edited with such texts, and exported.
NextCsv ==
    \/ \E form \in CsvForms : require_login(Request(None, TRUE), "add", Add(form))
    \/ \E oid \in Oids, form \in CsvForms :
          require_login(Request(oid, TRUE), "edit", Edit(oid, form, TRUE))
    \/ require_login(AuthParams, "export", ExportCsv(AuthParams))

SpecCsv == Init /\ [][NextCsv]_vars

(* ---------- requests that overlap, store call by store call ---------- *)

Procs == 1..NProcs

\* reqs[p] is the request that worker p is handling: pc names the store call
\* it makes next ("idle" when it handles none), the other fields are the
\* handler's local variables.
NoDoc == [_id |-> None, date |-> 0, vendor |-> <<>>, category |-> <<>>, amount |-> F(0),
          notes |-> <<>>, created_at |-> 0, updated_at |-> 0, receipt_id |-> None]
NoFields == [date |-> 0, vendor |-> <<>>, category |-> <<>>, amount |-> F(0),
             notes |-> <<>>, updated_at |-> 0]
Idle == [pc |-> "idle", oid |-> None, form |-> NoForm, doc |-> NoDoc,
         new_oid |-> None, set_fields |-> NoFields]

\* A worker that has returned its response: idle again, the id and the form
\* of the request it handled being kept.
Returned(req) == [Idle EXCEPT !.oid = req.oid, !.form = req.form]

\* Writes begun and not yet finished count towards the bound on writes.
Writing == {p \in Procs : reqs[p].pc \in {"add_put", "add_insert"}}
MayBegin == now + Cardinality(Writing) < StartTime + MaxWrites

Finish(p, kind, status) ==
    /\ reqs' = [reqs EXCEPT ![p] = Returned(reqs[p])]
    /\ obs' = Result(Request(reqs[p].oid, TRUE), kind, status)

\* add(), up to its first store call: the form is read and the amount parsed.
BeginAdd(p, form) ==
    /\ reqs[p].pc = "idle"
    /\ IF FloatRaises(form.amount)
       THEN /\ obs' = Result(Request(None, TRUE), "add", "302 /add")
            /\ UNCHANGED <<expenses_col, fs, nextOid, now, reqs>>
       ELSE /\ MayBegin
            /\ Cardinality(expenses_col) + Cardinality(Writing) < MaxRecs
            /\ reqs' = [reqs EXCEPT ![p] =
                           [Idle EXCEPT !.form = form,
                                        !.pc = IF SavesReceipt(form.file)
                                               THEN "add_put" ELSE "add_insert"]]
            /\ UNCHANGED <<expenses_col, fs, nextOid, now, obs>>

\* add(): fs.put in _save_receipt
AddPut(p) ==
    /\ reqs[p].pc = "add_put"
    /\ fs' = FsPut(fs, nextOid)
    /\ nextOid' = nextOid + 1
    /\ reqs' = [reqs EXCEPT ![p].new_oid = nextOid, ![p].pc = "add_insert"]
    /\ UNCHANGED <<expenses_col, now, obs>>

\* add(): insert_one of the document built after _save_receipt
AddInsert(p) ==
    /\ reqs[p].pc = "add_insert"
    /\ expenses_col' = InsertOne(expenses_col,
                                 AddDoc(reqs[p].form, reqs[p].new_oid, now, nextOid))
    /\ nextOid' = nextOid + 1
    /\ now' = now + 1
    /\ Finish(p, "add", "302 /expenses")
    /\ UNCHANGED fs

\* edit(): find_one, and what the handler computes from the form and the
\* document before its next store call
BeginEdit(p, oid, form) ==
    /\ reqs[p].pc = "idle"
    /\ IF ~Has(expenses_col, oid)
       THEN /\ obs' = Result(Request(oid, TRUE), "edit", "404")
            /\ UNCHANGED <<expenses_col, fs, nextOid, now, reqs>>
       ELSE LET doc == FindOne(expenses_col, oid)
                outcome == EditAmountOutcome(form, doc)
            IN  IF outcome # "ok"
                THEN /\ obs' = Result(Request(oid, TRUE), "edit",
                                      IF outcome = "ValueError" THEN "302 /edit" ELSE "500")
                     /\ UNCHANGED <<expenses_col, fs, nextOid, now, reqs>>
                ELSE /\ MayBegin
                     /\ now' = now + 1
                     /\ reqs' = [reqs EXCEPT ![p] =
                                    [pc |-> IF form.file = <<>> THEN "edit_update"
                                            ELSE IF SavesReceipt(form.file) THEN "edit_put"
                                            ELSE "edit_delete",
                                     oid |-> oid, form |-> form, doc |-> doc,
                                     new_oid |-> None,
                                     set_fields |-> SetFields(form, doc, now)]]
                     /\ UNCHANGED <<expenses_col, fs, nextOid, obs>>

\* edit(): fs.put in _save_receipt
EditPut(p) ==
    /\ reqs[p].pc = "edit_put"
    /\ fs' = FsPut(fs, nextOid)
    /\ nextOid' = nextOid + 1
    /\ reqs' = [reqs EXCEPT ![p].new_oid = nextOid, ![p].pc = "edit_delete"]
    /\ UNCHANGED <<expenses_col, now, obs>>

\* edit(): _delete_receipt of the receipt that find_one returned
EditDelete(p, ok) ==
    /\ reqs[p].pc = "edit_delete"
    /\ fs' = _delete_receipt(fs, reqs[p].doc.receipt_id, ok)
    /\ reqs' = [reqs EXCEPT ![p].pc = "edit_update"]
    /\ UNCHANGED <<expenses_col, nextOid, now, obs>>

\* edit(): update_one
EditUpdate(p) ==
    /\ reqs[p].pc = "edit_update"
    /\ expenses_col' = UpdateOne(expenses_col, reqs[p].oid,
                                 IF reqs[p].form.file # <<>>
                                 THEN WithReceipt(reqs[p].set_fields, reqs[p].new_oid)
                                 ELSE reqs[p].set_fields)
    /\ Finish(p, "edit", "302 /expenses")
    /\ UNCHANGED <<fs, nextOid, now>>

\* delete(): find_one
BeginDelete(p, oid) ==
    /\ reqs[p].pc = "idle"
    /\ IF ~Has(expenses_col, oid)
       THEN /\ obs' = Result(Request(oid, TRUE), "delete", "404")
            /\ UNCHANGED <<expenses_col, fs, nextOid, now, reqs>>
       ELSE /\ reqs' = [reqs EXCEPT ![p] =
                           [Idle EXCEPT !.oid = oid, !.doc = FindOne(expenses_col, oid),
                                        !.pc = "delete_receipt"]]
            /\ UNCHANGED <<expenses_col, fs, nextOid, now, obs>>

\* delete(): _delete_receipt of the receipt that find_one returned
DeleteReceipt(p, ok) ==
    /\ reqs[p].pc = "delete_receipt"
    /\ fs' = _delete_receipt(fs, reqs[p].doc.receipt_id, ok)
    /\ reqs' = [reqs EXCEPT ![p].pc = "delete_one"]
    /\ UNCHANGED <<expenses_col, nextOid, now, obs>>

\* delete(): delete_one
DeleteOneStep(p) ==
    /\ reqs[p].pc = "delete_one"
    /\ expenses_col' = DeleteOne(expenses_col, reqs[p].oid)
    /\ Finish(p, "delete", "302 /expenses")
    /\ UNCHANGED <<fs, nextOid, now>>

\* What fs.delete may do for worker p: delete the file, or raise.
StepOutcomes(p) == IF reqs[p].doc.receipt_id # None THEN BOOLEAN ELSE {TRUE}

InitConc ==
    /\ expenses_col = {}
    /\ fs = {}
    /\ nextOid = 1
    /\ now = StartTime
    /\ obs = Result(Request(None, TRUE), "none", "")
    /\ reqs = [p \in Procs |-> Idle]
    /\ session = LoggedIn

NextConc ==
    \E p \in Procs :
        \/ \E form \in Forms :
              require_login(Request(None, TRUE), "add", BeginAdd(p, form))
        \/ AddPut(p) /\ UNCHANGED session
        \/ AddInsert(p) /\ UNCHANGED session
        \/ \E oid \in Oids, form \in Forms :
              require_login(Request(oid, TRUE), "edit", BeginEdit(p, oid, form))
        \/ EditPut(p) /\ UNCHANGED session
        \/ \E ok \in StepOutcomes(p) : EditDelete(p, ok) /\ UNCHANGED session
        \/ EditUpdate(p) /\ UNCHANGED session
        \/ \E oid \in Oids :
              require_login(Request(oid, TRUE), "delete", BeginDelete(p, oid))
        \/ \E ok \in StepOutcomes(p) : DeleteReceipt(p, ok) /\ UNCHANGED session
        \/ DeleteOneStep(p) /\ UNCHANGED session

\* Requests overlap: between two store calls of one, others may run.
SpecConc == InitConc /\ [][NextConc]_vars

(* -------- an edit and a delete, or two edits, of one record ---------- *)

\* The record the two requests name, and the stores before them: one record,
\* added with a receipt.
RaceOid == 2
RaceStart ==
    [col |-> {AddDoc([BaseForm EXCEPT !.file = Pdf], 1, StartTime - 1, RaceOid)},
     fs |-> {1}, next |-> RaceOid + 1, now |-> StartTime]

\* The forms of the edits: nothing changed, the vendor changed, the vendor
\* left empty, a new receipt.
RaceForms ==
    {BaseForm, [BaseForm EXCEPT !.vendor = <<"b">>], [BaseForm EXCEPT !.vendor = <<>>],
     [BaseForm EXCEPT !.file = Pdf]}

\* edit() run alone on the stores s, every fs.delete deleting its file.
EditAlone(s, oid, form) ==
    IF ~Has(s.col, oid) THEN s
    ELSE LET doc == FindOne(s.col, oid)
             replaces == form.file # <<>>
             saves == SavesReceipt(form.file)
             new_oid == IF saves THEN s.next ELSE None
             fs1 == IF saves THEN FsPut(s.fs, new_oid) ELSE s.fs
             set_fields == IF replaces
                           THEN WithReceipt(SetFields(form, doc, s.now), new_oid)
                           ELSE SetFields(form, doc, s.now)
         IN  IF EditAmountOutcome(form, doc) # "ok" THEN s
             ELSE [col |-> UpdateOne(s.col, oid, set_fields),
                   fs |-> IF replaces THEN _delete_receipt(fs1, doc.receipt_id, TRUE) ELSE fs1,
                   next |-> IF saves THEN s.next + 1 ELSE s.next,
                   now |-> s.now + 1]

\* delete() run alone on the stores s, fs.delete deleting the file.
DeleteAlone(s, oid) ==
    IF ~Has(s.col, oid) THEN s
    ELSE [s EXCEPT !.fs = _delete_receipt(s.fs, FindOne(s.col, oid).receipt_id, TRUE),
                   !.col = DeleteOne(s.col, oid)]

\* The request a worker keeps (a delete submits no form) run alone on s.
RunAlone(s, req) ==
    IF req.form = NoForm THEN DeleteAlone(s, req.oid) ELSE EditAlone(s, req.oid, req.form)

InitRace ==
    /\ expenses_col = RaceStart.col
    /\ fs = RaceStart.fs
    /\ nextOid = RaceStart.next
    /\ now = RaceStart.now
    /\ obs = Result(Request(None, TRUE), "none", "")
    /\ reqs = [p \in Procs |-> Idle]
    /\ session = LoggedIn

\* Each worker handles one request on the record, an edit or a delete, and
\* the store calls of the two interleave; every fs.delete deletes its file.
NextRace ==
    \E p \in Procs :
        \/ \E form \in RaceForms :
              /\ reqs[p] = Idle
              /\ require_login(Request(RaceOid, TRUE), "edit", BeginEdit(p, RaceOid, form))
        \/ EditPut(p) /\ UNCHANGED session
        \/ EditDelete(p, TRUE) /\ UNCHANGED session
        \/ EditUpdate(p) /\ UNCHANGED session
        \/ /\ reqs[p] = Idle
           /\ require_login(Request(RaceOid, TRUE), "delete", BeginDelete(p, RaceOid))
        \/ DeleteReceipt(p, TRUE) /\ UNCHANGED session
        \/ DeleteOneStep(p) /\ UNCHANGED session

SpecRace == InitRace /\ [][NextRace]_vars

(* ------------------- properties of the read requests ------------------ *)

LowerText(s) == [i \in 1..Len(s) |-> Lower(s[i])]

\* t occurs in s as a substring.
Contains(s, t) ==
    \E i \in 0..(Len(s) - Len(t)) : \A k \in 1..Len(t) : s[i + k] = t[k]

\* The conditions the parameters p put on a record d, each only when supplied.
Selects(p, d) ==
    /\ p.start # 0 => Strftime(d.date) >= p.start
    /\ p.end # 0 => Strftime(d.date) <= p.end
    /\ p.category # <<>> => d.category = p.category
    /\ p.search # <<>> =>
          \/ Contains(LowerText(d.vendor), LowerText(p.search))
          \/ Contains(LowerText(d.notes), LowerText(p.search))

RowIds(rows) == [i \in 1..Len(rows) |-> rows[i].id]

RECURSIVE SumRows(_)
\* The sum of the amounts of a sequence of rows, from the first to the last.
SumRows(rows) ==
    IF rows = <<>> THEN F(0)
    ELSE FAdd(SumRows(SubSeq(rows, 1, Len(rows) - 1)), rows[Len(rows)].amount)

\* C1: the list view shows a record if and only if every supplied condition
\* holds of it: date >= start, date <= end (the whole end day included),
\* category equal to the parameter, and the search text a case-insensitive
\* substring of vendor or of notes.
C1_ListSelectsIffAllConditionsHold ==
    obs.kind = "list" =>
        {obs.rows[i].id : i \in 1..Len(obs.rows)}
            = {d._id : d \in {x \in expenses_col : Selects(obs.req, x)}}

\* C2: an export that follows a list view of the same parameters, with no
\* write in between, has exactly one row per listed record, in the same order.
C2_ExportRowsAreTheListedRows ==
    [][(obs.kind = "list" /\ obs'.kind = "export" /\ obs'.req = obs.req)
          => RowIds(obs'.rows) = RowIds(obs.rows)]_vars

\* C3: the filtered total of the list view is the sum of the amounts of the
\* rows it lists, which is 0 when it lists none; the dashboard's total is the
\* sum of the amounts of all records.
C3_TotalIsSumOfListed ==
    /\ obs.kind = "list" => obs.total = SumRows(obs.rows)
    /\ obs.kind = "dash" =>
          obs.total = SumRows(CHOOSE s \in Perms(expenses_col) : TRUE)

\* C3's case: a filter that lists one of two records, with a total that is not 0.
C3_Witness ==
    /\ obs.kind = "list"
    /\ Cardinality(expenses_col) = 2
    /\ Len(obs.rows) = 1
    /\ obs.total # F(0)

\* C4: the rows of the list view, of the export and of the dashboard's recent
\* list are in date-descending order, records of one date in id-descending order.
C4_RowsByDateThenIdDescending ==
    obs.kind \in {"list", "export", "dash"} =>
        \A i, j \in 1..Len(obs.rows) :
            i < j =>
                \/ obs.rows[i].date > obs.rows[j].date
                \/ obs.rows[i].date = obs.rows[j].date /\ obs.rows[i].id > obs.rows[j].id

\* The characters of the category labels, in code-point order.
CharOrder == <<"T", "U", "a", "c", "d", "e", "g", "i", "n", "o", "r", "t", "z">>
CharCode(c) == CHOOSE i \in 1..Len(CharOrder) : CharOrder[i] = c

RECURSIVE TextLess(_, _)
\* a sorts before b
TextLess(a, b) ==
    IF b = <<>> THEN FALSE
    ELSE IF a = <<>> THEN TRUE
    ELSE IF a[1] # b[1] THEN CharCode(a[1]) < CharCode(b[1])
    ELSE TextLess(Tail(a), Tail(b))

Label(c) == IF c = <<>> THEN Uncategorized ELSE c

\* group_by_category as the specification words it: one bucket to a label,
\* by descending sum, buckets of equal sum by ascending label.
Buckets ==
    {[category |-> l, sum |-> SumAmount({d \in expenses_col : Label(d.category) = l})] :
        l \in {Label(d.category) : d \in expenses_col}}

BucketBefore(a, b) ==
    \/ FLess(b.sum, a.sum)
    \/ a.sum = b.sum /\ TextLess(a.category, b.category)

BucketsInOrder ==
    CHOOSE s \in Perms(Buckets) :
        \A i, j \in 1..Len(s) : i < j => BucketBefore(s[i], s[j])

\* C5: the dashboard's top categories are the first 5 buckets of
\* group_by_category: every record in exactly one bucket, records without a
\* category in the one bucket "Uncategorized", no label twice, each bucket the
\* sum of its records, by descending sum and then ascending label.
C5_TopCategoriesArePrefixOfGroups ==
    obs.kind = "dash" => obs.top_categories = Limit(BucketsInOrder, TopLimit)

(* ------------------ properties of add, edit and delete ---------------- *)

\* The amount text parses as a finite number.
ParsesFinite(text) == ~FloatRaises(text) /\ Float(text).fin

\* C6: every stored amount is finite, and an add or edit whose amount text
\* does not parse as a finite number changes neither the collection nor
\* the receipts.
C6_AmountsFiniteAndBadAmountRejected ==
    [][/\ \A d \in expenses_col' : d.amount.fin
       /\ \A form \in Forms :
             (/\ ~ParsesFinite(form.amount)
              /\ \/ Add(form)
                 \/ \E oid \in Oids, ok \in BOOLEAN : Edit(oid, form, ok))
                => UNCHANGED <<expenses_col, fs>>]_vars

\* C7: an add or edit whose upload has an extension outside ALLOWED_EXT
\* changes neither the collection nor the receipts.
C7_BadExtensionRejected ==
    [][\A form \in Forms :
          (/\ form.file # <<>>
           /\ ~allowed_file(form.file)
           /\ \/ Add(form)
              \/ \E oid \in Oids, ok \in BOOLEAN : Edit(oid, form, ok))
             => UNCHANGED <<expenses_col, fs>>]_vars

\* C8: a successful edit stores the submitted date, vendor, category, amount
\* and notes (texts as strip() leaves them, empty ones too), sets updated_at
\* to the time of the edit, keeps _id and created_at, and leaves every other
\* record as it was.
C8_EditReplacesSubmittedFields ==
    [][\A oid \in Oids, form \in Forms, ok \in BOOLEAN :
          (Edit(oid, form, ok) /\ obs'.status = "302 /expenses")
             => /\ Has(expenses_col', oid)
                /\ LET old == FindOne(expenses_col, oid)
                       new == FindOne(expenses_col', oid)
                   IN  /\ form.date # 0 => new.date = _parse_date(form.date)
                       /\ new.vendor = Strip(form.vendor)
                       /\ new.category = Strip(form.category)
                       /\ new.amount = Float(form.amount)
                       /\ new.notes = Strip(form.notes)
                       /\ new.updated_at = now
                       /\ new.created_at = old.created_at
                       /\ expenses_col' \ {new} = expenses_col \ {old}]_vars

\* What C9 says of an edit or delete of an id that is not in the collection.
NotFoundChangesNothing ==
    (obs'.kind \in {"edit", "delete"} /\ ~Has(expenses_col, obs'.req.oid))
       => obs'.status = "404" /\ UNCHANGED <<expenses_col, fs>>

\* What C9 says of a delete of a record: it is gone, no other record and no
\* other receipt is touched, and (when gone holds) its receipt is not found.
DeleteRemoves(gone) ==
    (obs'.kind = "delete" /\ Has(expenses_col, obs'.req.oid))
       => LET doc == FindOne(expenses_col, obs'.req.oid)
          IN  /\ expenses_col' = expenses_col \ {doc}
              /\ fs' \ {doc.receipt_id} = fs \ {doc.receipt_id}
              /\ (doc.receipt_id # None /\ gone)
                    => ReceiptsStatus(fs', doc.receipt_id) = "404"

\* C9 as claimed: after every delete of a record with a receipt, a lookup of
\* the receipt is answered 404.
C9_DeleteRemovesRecordAndReceipt ==
    [][DeleteRemoves(TRUE) /\ NotFoundChangesNothing]_vars

\* C9, amended: a delete that runs alone removes the record and touches no
\* other record or receipt; a lookup of its receipt is answered 404 when the
\* receipt store deleted the file (a failure of fs.delete is swallowed).  A
\* delete or edit of an id that is not in the collection is answered 404 and
\* changes nothing.
C9_DeleteRemovesReceiptWhenStoreDeletes ==
    [][DeleteRemoves(obs'.req.fs_deleted) /\ NotFoundChangesNothing]_vars

\* C9's case: two records were added with a receipt each (ObjectIds 1 to 4),
\* and a delete has removed the first record together with its receipt 1.
C9_Witness ==
    /\ obs.kind = "delete"
    /\ obs.status = "302 /expenses"
    /\ nextOid = 5
    /\ {d._id : d \in expenses_col} = {4}
    /\ fs = {3}

\* C10: in every state that a request can observe, also between the store
\* calls of a running edit or delete, each receipt_id of a stored record
\* names a file of the receipt store.
C10_NoDanglingReceiptReference ==
    \A d \in expenses_col : d.receipt_id # None => d.receipt_id \in fs

(* ---------------- properties of overlapping requests ------------------ *)

\* The stores up to the names of the receipts and the time of the update:
\* the records with the reference of each reduced to whether it names a
\* stored file, and the number of stored files.
Shape(col, files) ==
    [records |-> {[d EXCEPT !.updated_at = 0,
                            !.receipt_id = IF d.receipt_id = None THEN "none"
                                           ELSE IF d.receipt_id \in files THEN "stored"
                                           ELSE "missing"] : d \in col},
     files |-> Cardinality(files)]

\* Worker p returns the response of a request on the record with this step.
Completes(p) == reqs[p].pc # "idle" /\ reqs'[p].pc = "idle"

\* Worker q has returned the response of its request on the record.
HasReturned(q) == reqs[q].pc = "idle" /\ reqs[q].oid # None

\* The stores after q's request and then p's, each run alone.
OneAfterTheOther(q, p) == RunAlone(RunAlone(RaceStart, reqs[q]), reqs[p])

\* C11: when an edit and a delete of one record, or two edits of it, overlap,
\* the stores end as they do when the two requests run one after the other,
\* the one that completes last being run last.
C11_LastToCompleteDeterminesFinalState ==
    [][\A p, q \in Procs :
          (p # q /\ Completes(p) /\ HasReturned(q))
             => Shape(expenses_col', fs')
                   = Shape(OneAfterTheOther(q, p).col, OneAfterTheOther(q, p).fs)]_vars

(* ---------------------- properties of the login gate ------------------ *)

\* The step is a login attempt with the configured username and password.
RightLogin ==
    /\ obs'.kind = "login"
    /\ obs'.req.method = "POST"
    /\ obs'.req.username = APP_USERNAME
    /\ obs'.req.password = APP_PASSWORD

\* The step answers with a redirect to the login page, rendered from
\* nothing of the stores, and leaves the stores as they are.
RedirectedUntouched ==
    /\ obs'.status = "302 /login"
    /\ obs'.rows = <<>> /\ obs'.total = F(0) /\ obs'.top_categories = <<>>
    /\ UNCHANGED <<expenses_col, fs, nextOid>>

\* C12: a session becomes authenticated only by a login with the configured
\* username and password and is unauthenticated after a logout; a request of
\* an unauthenticated session to a route other than /login is redirected to
\* the login page and neither reads nor writes the stores, and a login
\* attempt with wrong credentials leaves the session unauthenticated.
C12_UnauthenticatedRequestsAreRedirected ==
    [][/\ (~session.authed /\ session'.authed) => RightLogin
       /\ obs'.kind = "logout" => ~session'.authed
       /\ (~session.authed /\ obs'.kind # "login") => RedirectedUntouched
       /\ (~session.authed /\ obs'.kind = "login" /\ ~RightLogin)
             => ~session'.authed /\ UNCHANGED <<expenses_col, fs>>]_vars

\* A session that logged in, added a record and logged out asks to delete
\* the record: it is sent to the login page and the record is still stored.
C12_Witness ==
    /\ ~session.authed
    /\ obs.kind = "delete" /\ obs.status = "302 /login"
    /\ Has(expenses_col, obs.req.oid)

(* -------------------- properties of the receipt store ----------------- *)

\* The records that hold the reference f.
Referencing(f) == {d \in expenses_col : d.receipt_id = f}

\* C13: after add, edit and delete requests that run one at a time, every
\* deletion from the receipt store succeeding, every stored file is
\* referenced by exactly one record and no two records hold one reference.
C13_NoOrphanAndNoSharedReceipt ==
    /\ \A f \in fs : Cardinality(Referencing(f)) = 1
    /\ \A d \in expenses_col : d.receipt_id # None => Referencing(d.receipt_id) = {d}

\* An edit has replaced the receipt of a record: the first file is gone and
\* the record holds the new one.
C13_Witness ==
    /\ obs.kind = "edit" /\ obs.status = "302 /expenses"
    /\ fs = {3}
    /\ \E d \in expenses_col : d._id = 2 /\ d.receipt_id = 3

(* ------------------------ properties of the export -------------------- *)

RECURSIVE Split(_, _)
\* s.split(sep): the pieces of s between the occurrences of sep.
Split(s, sep) ==
    IF \A i \in 1..Len(s) : s[i] # sep THEN <<s>>
    ELSE LET k == CHOOSE i \in 1..Len(s) : s[i] = sep /\ \A j \in 1..(i - 1) : s[j] # sep
         IN  <<SubSeq(s, 1, k - 1)>> \o Split(SubSeq(s, k + 1, Len(s)), sep)

\* The line ends with its only newline, and what precedes it splits on
\* commas into the strings of the row, as many as the header names.
OneLineOfHeaderFields(row) ==
    LET line == CsvLine(row)
        body == SubSeq(line, 1, Len(line) - 1)
    IN  /\ line[Len(line)] = "\n"
        /\ \A i \in 1..Len(body) : body[i] # "\n"
        /\ Len(Split(body, ",")) = Len(CsvHeader)
        /\ Split(body, ",") = CsvText(row)

\* C14: the line that the export yields for a stored record is a single
\* line that splits on commas into as many fields as the header has, each
\* the value of its column, whatever text vendor, category and notes hold.
C14_ExportRowIsOneLineOfHeaderFields ==
    obs.kind = "export" => \A i \in 1..Len(obs.rows) : OneLineOfHeaderFields(obs.rows[i])

====
